---- MODULE Spec2Model ----
(***************************************************************************)
(* Model of src/app.py: the hearing-loss simulator.                        *)
(*                                                                         *)
(*   - the signal pipeline: butter_lowpass_filter and process_audio;       *)
(*   - the Streamlit script main(), one rerun per user interaction, with   *)
(*     its session_state and the two st.cache_data memo caches;            *)
(*   - several sessions calling the cached process_audio concurrently.     *)
(*                                                                         *)
(* Sample values, frequencies and filter coefficients are exact rationals  *)
(* <<n, d>> (d > 0, lowest terms) standing for the floats of the program.  *)
(***************************************************************************)
EXTENDS Integers, Sequences, FiniteSets, TLC

VARIABLES
    \* --- one call of the pipeline (SpecPipeline) ---
    data,            \* the input buffer: a sequence of rationals
    fs,              \* sample rate (integer)
    cutoff_freq,     \* cutoff in Hz (integer)
    order,           \* filter order of a direct butter_lowpass_filter call
    pc,              \* position of the call
    filtered_data,   \* process_audio's local filtered_data
    max_val,         \* process_audio's local max_val
    error,           \* the exception that ended the call, or "none"
    wn,              \* the value handed to butter, <<>> while it was not called
    \* --- the Streamlit script (Spec) ---
    session_state,   \* st.session_state: key -> value, only the keys set
    stamp,           \* ghost: for each result key, the rerun that wrote it
    widgets,         \* what the last rerun saw: the button and the file source
    outcome,         \* how the last rerun ended
    nrun,            \* number of reruns so far
    \* --- the st.cache_data store of process_audio (Spec, SpecCache) ---
    cache,           \* key -> cached return value
    bodyRuns,        \* ghost: key -> times the body of process_audio ran
    returns,         \* ghost: key -> the values calls with that key returned
    \* --- concurrent sessions (SpecCache) ---
    spc,             \* session -> position inside the cached call
    skey,            \* session -> the key it asked for
    sres,            \* session -> what its last call returned
    scalls,          \* calls the sessions have started so far
    locks            \* lock id -> holding session, or 0

pipeVars  == <<data, fs, cutoff_freq, order, pc, filtered_data, max_val, error, wn>>
appVars   == <<session_state, stamp, widgets, outcome, nrun>>
storeVars == <<cache, bodyRuns, returns>>
concVars  == <<spc, skey, sres, scalls, locks>>
vars      == <<pipeVars, appVars, storeVars, concVars>>

(***************************************************************************)
(* Bounds of the model.                                                    *)
(***************************************************************************)
MaxLen == 2          \* longest buffer drawn for a pipeline call
MaxAmp == 2          \* samples are drawn from -MaxAmp .. MaxAmp
MaxReruns == 2       \* reruns of the script in one behaviour
NSessions == 2       \* concurrent sessions
MaxCalls == 3        \* cached calls the sessions make in one behaviour

(***************************************************************************)
(* Exact rational arithmetic.                                              *)
(***************************************************************************)
Abs(x) == IF x < 0 THEN -x ELSE x

RECURSIVE GCD(_, _)
GCD(a, b) == IF b = 0 THEN a ELSE GCD(b, a % b)

Rat(n, d) ==
    LET g == GCD(Abs(n), Abs(d))
        s == IF d < 0 THEN -1 ELSE 1
    IN  <<(s * n) \div g, (s * d) \div g>>

RZero == <<0, 1>>
ROne == <<1, 1>>
RInt(i) == <<i, 1>>
RNeg(x) == <<-x[1], x[2]>>
RAbs(x) == <<Abs(x[1]), x[2]>>
RAdd(x, y) ==
    LET g == GCD(x[2], y[2])
    IN  Rat(x[1] * (y[2] \div g) + y[1] * (x[2] \div g), (x[2] \div g) * y[2])
RSub(x, y) == RAdd(x, RNeg(y))
RMul(x, y) ==
    LET g1 == GCD(Abs(x[1]), y[2])
        g2 == GCD(Abs(y[1]), x[2])
    IN  Rat((x[1] \div g1) * (y[1] \div g2), (x[2] \div g2) * (y[2] \div g1))
RInv(x) == IF x[1] < 0 THEN <<-x[2], -x[1]>> ELSE <<x[2], x[1]>>
RDiv(x, y) == RMul(x, RInv(y))
RLess(x, y) ==
    LET g == GCD(x[2], y[2])
    IN  x[1] * (y[2] \div g) < y[1] * (x[2] \div g)
RLeq(x, y) == ~RLess(y, x)
RMaxOf(x, y) == IF RLess(x, y) THEN y ELSE x

\* np.abs on a buffer
NpAbs(s) == [i \in 1..Len(s) |-> RAbs(s[i])]

\* np.max of a non-empty buffer
RECURSIVE NpMaxFrom(_, _)
NpMaxFrom(s, i) == IF i = Len(s) THEN s[i] ELSE RMaxOf(s[i], NpMaxFrom(s, i + 1))
NpMax(s) == NpMaxFrom(s, 1)

(***************************************************************************)
(* Library calls of the pipeline, by what they do.                         *)
(***************************************************************************)
DefaultOrder == 5

\* scipy.signal.butter(order, Wn, btype='low', analog=False): the order must
\* be a nonnegative integer and the digital critical frequency must satisfy
\* 0 < Wn < 1, otherwise ValueError.
ButterRejects(N, Wn) == N < 0 \/ RLeq(Wn, RZero) \/ RLeq(ROne, Wn)

\* The coefficients (b, a) of the design.  Order 0 is the identity filter
\* ([1], [1]).  For N >= 1 the true Butterworth coefficients are irrational;
\* the model uses the one-pole low-pass section obtained from the bilinear
\* transform with tan(pi*Wn/2) replaced by Wn/(1-Wn): b = [Wn, Wn],
\* a = [1, 2Wn-1].  Like every Butterworth design it has a[0] = 1, b[0] > 0
\* and unit gain at DC.
ButterB(N, Wn) == IF N = 0 THEN <<ROne>> ELSE <<Wn, Wn>>
ButterA(N, Wn) == IF N = 0 THEN <<ROne>> ELSE <<ROne, RSub(RAdd(Wn, Wn), ROne)>>

\* sum over k in lo..hi of c[k+1] * s[n-k]   (c is 0-based in the code)
RECURSIVE Taps(_, _, _, _, _)
Taps(c, s, n, lo, hi) ==
    IF lo > hi THEN RZero
    ELSE RAdd(RMul(c[lo + 1], s[n - lo]), Taps(c, s, n, lo + 1, hi))

Min(i, j) == IF i < j THEN i ELSE j

\* scipy.signal.lfilter(b, a, x), a[0] = 1: the direct-form recurrence
\*   y[n] = sum_k b[k] x[n-k] - sum_{k>=1} a[k] y[n-k],
\* one output sample per input sample.
RECURSIVE LfilterUpTo(_, _, _, _)
LfilterUpTo(b, a, x, n) ==
    IF n = 0 THEN <<>>
    ELSE LET y == LfilterUpTo(b, a, x, n - 1)
             ff == Taps(b, x, n, 0, Min(n - 1, Len(b) - 1))
             fb == Taps(a, y, n, 1, Min(n - 1, Len(a) - 1))
         IN  Append(y, RSub(ff, fb))
lfilterTrimmed(b, a, x) ==
    LfilterUpTo(b, a, x, IF Len(x) = 0 THEN 0 ELSE Len(x) - 1)
lfilter(b, a, x) == LfilterUpTo(b, a, x, Len(x))

\* librosa.util.normalize(S) with its defaults (norm=inf, threshold=tiny,
\* fill=None): divide by the peak magnitude; a buffer whose peak is below
\* the threshold (here: zero) is left as it is.  (The empty case is never
\* reached: line 82 raises first.)
normalize(S) ==
    IF Len(S) = 0 THEN S
    ELSE LET length == NpMax(NpAbs(S))
             div == IF length = RZero THEN ROne ELSE length
         IN  [i \in 1..Len(S) |-> RDiv(S[i], div)]

Scale(S, k) == [i \in 1..Len(S) |-> RMul(S[i], k)]

(***************************************************************************)
(* butter_lowpass_filter and process_audio.                                *)
(***************************************************************************)
ClampValue == <<99, 100>>

\* lines 64-65: nyq = 0.5 * fs; normal_cutoff = cutoff / nyq   (fs /= 0)
RawCutoff(cutoff, rate) == RDiv(RInt(cutoff), RDiv(RInt(rate), RInt(2)))

\* lines 67-68: the clamp
ClampStrict(nc) == IF RLess(ROne, nc) THEN ClampValue ELSE nc
Clamp(nc) == IF RLeq(ROne, nc) THEN ClampValue ELSE nc

\* the value handed to butter
NormalCutoff(cutoff, rate) == Clamp(RawCutoff(cutoff, rate))

Raised(e) == [ok |-> FALSE, err |-> e, y |-> <<>>]
Returned(v) == [ok |-> TRUE, err |-> "none", y |-> v]

butter_lowpass_filter(x, cutoff, rate, N) ==
    IF rate = 0 THEN Raised("ZeroDivisionError")
    ELSE LET Wn == NormalCutoff(cutoff, rate)
         IN  IF ButterRejects(N, Wn) THEN Raised("ValueError")
             ELSE Returned(lfilter(ButterB(N, Wn), ButterA(N, Wn), x))

\* line 82: np.max(np.abs(data)); np.max of an empty array raises ValueError
PeakOf(x) ==
    IF Len(x) = 0 THEN Raised("ValueError")
    ELSE [ok |-> TRUE, err |-> "none", y |-> NpMax(NpAbs(x))]

\* lines 83-84
CompensateNoRestore(filt, peak) ==
    IF RLess(RZero, peak) THEN normalize(filt) ELSE filt
Compensate(filt, peak) ==
    IF RLess(RZero, peak) THEN Scale(normalize(filt), peak) ELSE filt

process_audio(x, rate, cutoff) ==
    LET f == butter_lowpass_filter(x, cutoff, rate, DefaultOrder)
    IN  IF ~f.ok THEN f
        ELSE LET m == PeakOf(x)
             IN  IF ~m.ok THEN Raised(m.err)
                 ELSE Returned(Compensate(f.y, m.y))

(***************************************************************************)
(* SpecPipeline: one call of butter_lowpass_filter or of process_audio on  *)
(* inputs drawn from bounded sets, process_audio taken line by line.       *)
(***************************************************************************)
RECURSIVE SeqsUpTo(_, _)
SeqsUpTo(S, n) ==
    IF n = 0 THEN {<<>>}
    ELSE LET shorter == SeqsUpTo(S, n - 1)
         IN  shorter \cup {Append(q, v) : q \in shorter, v \in S}

Samples == {RInt(i) : i \in -MaxAmp..MaxAmp}
Buffers == SeqsUpTo(Samples, MaxLen)
Rates == {-8000, 0, 8000, 44100}
Cutoffs == {0, 1500, 3000, 4000, 6000, 15000}
Orders == {-1, 0, 1, DefaultOrder}

NoWidgets == [process_btn |-> FALSE, file_source |-> "none"]
AppIdle ==
    /\ session_state = <<>>
    /\ stamp = <<>>
    /\ widgets = NoWidgets
    /\ outcome = "none"
    /\ nrun = 0
StoreIdle == cache = <<>> /\ bodyRuns = <<>> /\ returns = <<>>
ConcIdle == spc = <<>> /\ skey = <<>> /\ sres = <<>> /\ scalls = 0 /\ locks = <<>>
PipeIdle ==
    /\ data = <<>>
    /\ fs = 0
    /\ cutoff_freq = 0
    /\ order = DefaultOrder
    /\ pc = "idle"
    /\ filtered_data = <<>>
    /\ max_val = RZero
    /\ error = "none"
    /\ wn = <<>>

InitPipeline ==
    /\ data \in Buffers
    /\ fs \in Rates
    /\ cutoff_freq \in Cutoffs
    /\ order \in Orders
    /\ pc = "start"
    /\ filtered_data = <<>>
    /\ max_val = RZero
    /\ error = "none"
    /\ wn = <<>>
    /\ AppIdle /\ StoreIdle /\ ConcIdle

\* a direct call butter_lowpass_filter(data, cutoff, fs, order)
CallFilter ==
    /\ pc = "start"
    /\ LET r == butter_lowpass_filter(data, cutoff_freq, fs, order)
       IN  /\ pc' = IF r.ok THEN "filter_returned" ELSE "filter_raised"
           /\ filtered_data' = r.y
           /\ error' = r.err
    /\ wn' = IF fs = 0 THEN <<>> ELSE NormalCutoff(cutoff_freq, fs)
    /\ UNCHANGED <<data, fs, cutoff_freq, order, max_val>>
    /\ UNCHANGED <<appVars, storeVars, concVars>>

\* process_audio, line 79 (the order is the default one)
RunFilter ==
    /\ pc = "start"
    /\ order = DefaultOrder
    /\ LET r == butter_lowpass_filter(data, cutoff_freq, fs, DefaultOrder)
       IN  /\ pc' = IF r.ok THEN "peak" ELSE "raised"
           /\ filtered_data' = r.y
           /\ error' = r.err
    /\ wn' = IF fs = 0 THEN <<>> ELSE NormalCutoff(cutoff_freq, fs)
    /\ UNCHANGED <<data, fs, cutoff_freq, order, max_val>>
    /\ UNCHANGED <<appVars, storeVars, concVars>>

\* process_audio, line 82
RunPeak ==
    /\ pc = "peak"
    /\ LET m == PeakOf(data)
       IN  /\ pc' = IF m.ok THEN "gain" ELSE "raised"
           /\ max_val' = IF m.ok THEN m.y ELSE max_val
           /\ error' = m.err
    /\ UNCHANGED <<data, fs, cutoff_freq, order, filtered_data, wn>>
    /\ UNCHANGED <<appVars, storeVars, concVars>>

\* process_audio, lines 83-86
RunGain ==
    /\ pc = "gain"
    /\ filtered_data' = Compensate(filtered_data, max_val)
    /\ pc' = "done"
    /\ UNCHANGED <<data, fs, cutoff_freq, order, max_val, error, wn>>
    /\ UNCHANGED <<appVars, storeVars, concVars>>

NextPipeline == CallFilter \/ RunFilter \/ RunPeak \/ RunGain

SpecPipeline == InitPipeline /\ [][NextPipeline]_vars

(***************************************************************************)
(* Claims about the pipeline (checked under SpecPipeline).                 *)
(***************************************************************************)
Peak(x) == NpMax(NpAbs(x))
Silent(x) == \A i \in 1..Len(x) : x[i] = RZero
RunEnded == pc \in {"done", "raised"}
ValidParams == fs > 0 /\ cutoff_freq > 0

\* C1: process_audio on a buffer of length 0 (valid sample rate and cutoff)
\* returns a buffer of length 0 and raises no error.
C1_EmptyBufferReturnsEmpty ==
    (RunEnded /\ Len(data) = 0 /\ ValidParams)
        => (pc = "done" /\ Len(filtered_data) = 0)

\* C2: a call of butter_lowpass_filter fails if and only if sample_rate <= 0
\* or order <= 0; with both positive it never fails, whatever the cutoff.
C2_FailsIffBadRateOrOrder ==
    (pc \in {"filter_returned", "filter_raised"})
        => ((pc = "filter_raised") <=> (fs <= 0 \/ order <= 0))

AtOrAboveNyquist ==
    IF fs > 0 THEN 2 * cutoff_freq >= fs ELSE 2 * cutoff_freq <= fs

\* C3: the value handed to butter is 0.99 whenever cutoff / (fs/2) >= 1, is
\* cutoff / (fs/2) itself whenever that is < 1, and so is always below 1.
C3_ClampBehaviour ==
    (wn # <<>>)
        => /\ AtOrAboveNyquist => wn = <<99, 100>>
           /\ ~AtOrAboveNyquist => wn = Rat(2 * cutoff_freq, fs)
           /\ wn[1] < wn[2]
C3_Witness ==
    /\ pc \in {"peak", "filter_returned"}
    /\ 2 * cutoff_freq = fs
    /\ wn = <<99, 100>>

\* C4: for a non-silent buffer the normalised filtered signal has peak 1 and
\* the returned buffer's peak equals the peak of the input.
C4_PeakRestoration ==
    /\ (pc = "gain" /\ RLess(RZero, max_val))
          => Peak(normalize(filtered_data)) = ROne
    /\ (pc = "done" /\ ~Silent(data))
          => Peak(filtered_data) = Peak(data)
C4_Witness ==
    /\ pc = "done"
    /\ Len(data) = 2
    /\ Peak(data) = RInt(2)
    /\ filtered_data # data
    /\ Peak(filtered_data) = RInt(2)

\* C5: process_audio on n zeros (any n, valid sample rate and cutoff)
\* returns n zeros.
C5_SilenceInvariance ==
    (RunEnded /\ Silent(data) /\ ValidParams)
        => (pc = "done" /\ filtered_data = data)

Ages == {"20", "50", "65", "80", "custom"}

\* lines 145-151
age_map(a) ==
    CASE a = "20" -> 15000
      [] a = "50" -> 6000
      [] a = "65" -> 3000
      [] a = "80" -> 1500
      [] OTHER -> 0

\* line 156: the slider runs over 500..10000, default 2000
SliderDefault == 2000
SliderValues == {500, SliderDefault}

\* lines 155-158
CutoffOf(selected_age, slider) ==
    IF selected_age = "custom" THEN slider ELSE age_map(selected_age)

\* What the user can upload, and what get_default_sample_path can find.
Uploads == {"none", "empty_bytes", "corrupt", "zero_frames"}
SamplePaths == {"none", "Sample1.mp3"}

\* lines 125-142: file_source (file_bytes is the content of the same file)
FileSource(uploaded_file, sample_path) ==
    IF uploaded_file # "none" THEN uploaded_file ELSE sample_path

\* line 168: file_source and file_bytes are both truthy
Loaded(file_source) == file_source \notin {"none", "empty_bytes"}

\* load_audio_data (librosa.load, sr=None): raises on a file it cannot
\* decode, otherwise the decoded samples and the file's own sample rate.
Decodable(f) == f # "corrupt"
DecodedData(f) == IF f = "zero_frames" THEN <<>> ELSE <<RInt(1), RInt(-2)>>
DecodedRate(f) == IF f = "Sample1.mp3" THEN 44100 ELSE 8000

\* @st.cache_data on process_audio, one call taken as a whole: a stored
\* key returns the stored value without running the body; otherwise the
\* body runs and its return value is stored.  An exception stores nothing.
CachedProcessAudio(c, x, rate, cutoff) ==
    LET k == <<x, rate, cutoff>>
    IN  IF k \in DOMAIN c
        THEN [res |-> Returned(c[k]), cache |-> c, ran |-> FALSE, key |-> k]
        ELSE LET r == process_audio(x, rate, cutoff)
             IN  [res |-> r,
                  cache |-> IF r.ok THEN (k :> r.y) @@ c ELSE c,
                  ran |-> TRUE, key |-> k]

Bump(f, k) == (k :> (IF k \in DOMAIN f THEN f[k] + 1 ELSE 1)) @@ f
Collect(f, k, v) == (k :> (IF k \in DOMAIN f THEN f[k] \cup {v} ELSE {v})) @@ f

\* sf.write(out_io, filtered_data, fs, format='WAV')
Wav(samples, rate) == [format |-> "WAV", rate |-> rate, samples |-> samples]

ResultKeys == {"result_audio", "result_data", "result_params"}

\* line 181
ShouldProcessAlways(process_btn) == TRUE
ShouldProcess(process_btn) == process_btn

\* lines 184-194, the effect on session_state (ss) and its stamps (st)
GenerateStoreEarly(ss, st, c, x, rate, cutoff, age, sf_ok, run) ==
    LET call == CachedProcessAudio(c, x, rate, cutoff)
        ss1 == ("result_params" :> <<age, cutoff>>) @@ ss
        st1 == ("result_params" :> run) @@ st
    IN  IF ~call.res.ok
        THEN [ss |-> ss1, st |-> st1, call |-> call, outcome |-> "pipeline_error"]
        ELSE IF ~sf_ok
        THEN [ss |-> ss1, st |-> st1, call |-> call, outcome |-> "export_error"]
        ELSE [ss |-> ("result_audio" :> Wav(call.res.y, rate))
                       @@ ("result_data" :> call.res.y) @@ ss1,
              st |-> [k \in ResultKeys |-> run],
              call |-> call, outcome |-> "generated"]
Generate(ss, st, c, x, rate, cutoff, age, sf_ok, run) ==
    LET call == CachedProcessAudio(c, x, rate, cutoff)
    IN  IF ~call.res.ok
        THEN [ss |-> ss, st |-> st, call |-> call, outcome |-> "pipeline_error"]
        ELSE IF ~sf_ok
        THEN [ss |-> ss, st |-> st, call |-> call, outcome |-> "export_error"]
        ELSE [ss |-> ("result_audio" :> Wav(call.res.y, rate))
                       @@ ("result_data" :> call.res.y)
                       @@ ("result_params" :> <<age, cutoff>>) @@ ss,
              st |-> [k \in ResultKeys |-> run],
              call |-> call, outcome |-> "generated"]

main(uploaded_file, sample_path, selected_age, slider, process_btn, sf_ok) ==
    LET file_source == FileSource(uploaded_file, sample_path)
        cutoff == CutoffOf(selected_age, slider)
    IN  /\ nrun < MaxReruns
        \* line 162: the button is disabled without a file source
        /\ process_btn => file_source # "none"
        /\ nrun' = nrun + 1
        /\ widgets' = [process_btn |-> process_btn, file_source |-> file_source]
        /\ IF ~Loaded(file_source)
           THEN \* line 209; line 223 reads data, which was never assigned
                /\ outcome' = IF file_source # "none"
                                  /\ "result_data" \in DOMAIN session_state
                               THEN "name_error" ELSE "no_file"
                /\ UNCHANGED <<session_state, stamp, storeVars>>
           ELSE IF ~Decodable(file_source)
           THEN \* lines 172-174: st.error, st.stop
                /\ outcome' = "decode_error"
                /\ UNCHANGED <<session_state, stamp, storeVars>>
           ELSE IF ShouldProcess(process_btn)
           THEN \E g \in {Generate(session_state, stamp, cache,
                                  DecodedData(file_source),
                                  DecodedRate(file_source),
                                  cutoff, selected_age, sf_ok, nrun + 1)} :
                    /\ session_state' = g.ss
                    /\ stamp' = g.st
                    /\ outcome' = g.outcome
                    /\ cache' = g.call.cache
                    /\ bodyRuns' = IF g.call.ran
                                   THEN Bump(bodyRuns, g.call.key)
                                   ELSE bodyRuns
                    /\ returns' = IF g.call.res.ok
                                  THEN Collect(returns, g.call.key, g.call.res.y)
                                  ELSE returns
           ELSE /\ outcome' = "shown"
                /\ UNCHANGED <<session_state, stamp, storeVars>>
        /\ UNCHANGED <<pipeVars, concVars>>

Init == PipeIdle /\ AppIdle /\ StoreIdle /\ ConcIdle

Rerun ==
    \E uploaded_file \in Uploads, sample_path \in SamplePaths,
       selected_age \in Ages, process_btn \in BOOLEAN :
        \E slider \in (IF selected_age = "custom" THEN SliderValues
                                                  ELSE {SliderDefault}),
           sf_ok \in (IF process_btn THEN BOOLEAN ELSE {TRUE}) :
            main(uploaded_file, sample_path, selected_age, slider, process_btn, sf_ok)

Next == Rerun

Spec == Init /\ [][Next]_vars

(***************************************************************************)
(* SpecCache: sessions (one script thread each) calling the cached         *)
(* process_audio at the same time.  @st.cache_data looks the key up; on a  *)
(* miss it takes the lock of that key, looks the key up again, and only    *)
(* then runs the body and stores the value, releasing the lock at the end  *)
(* (also when the body raises).                                            *)
(***************************************************************************)
Sessions == 1..NSessions

Tone == <<RInt(1), RInt(-2)>>
CacheKeys == {<<Tone, 44100, 3000>>, <<Tone, 44100, 1500>>, <<<<>>, 8000, 3000>>}

\* the lock taken while the value of a key is computed
compute_value_lock_global(value_key) == <<>>
compute_value_lock(value_key) == value_key

LockIds == {compute_value_lock(k) : k \in CacheKeys}

InitCache ==
    /\ PipeIdle /\ AppIdle /\ StoreIdle
    /\ spc = [s \in Sessions |-> "idle"]
    /\ skey = [s \in Sessions |-> <<>>]
    /\ sres = [s \in Sessions |-> Raised("none")]
    /\ scalls = 0
    /\ locks = [l \in LockIds |-> 0]

Release(s, k) == [locks EXCEPT ![compute_value_lock(k)] = 0]

\* line 184: the session calls process_audio(data, fs, cutoff_freq)
Request(s, k) ==
    /\ spc[s] = "idle"
    /\ scalls < MaxCalls
    /\ scalls' = scalls + 1
    /\ skey' = [skey EXCEPT ![s] = k]
    /\ spc' = [spc EXCEPT ![s] = "read"]
    /\ UNCHANGED <<sres, locks, storeVars, pipeVars, appVars>>

\* first lookup, without the lock
ReadCache(s) ==
    /\ spc[s] = "read"
    /\ IF skey[s] \in DOMAIN cache
       THEN /\ sres' = [sres EXCEPT ![s] = Returned(cache[skey[s]])]
            /\ returns' = Collect(returns, skey[s], cache[skey[s]])
            /\ spc' = [spc EXCEPT ![s] = "idle"]
       ELSE /\ spc' = [spc EXCEPT ![s] = "acquire"]
            /\ UNCHANGED <<sres, returns>>
    /\ UNCHANGED <<skey, scalls, locks, cache, bodyRuns, pipeVars, appVars>>

\* take the lock of the key; blocks while another session holds it
Acquire(s) ==
    /\ spc[s] = "acquire"
    /\ locks[compute_value_lock(skey[s])] = 0
    /\ locks' = [locks EXCEPT ![compute_value_lock(skey[s])] = s]
    /\ spc' = [spc EXCEPT ![s] = "reread"]
    /\ UNCHANGED <<skey, sres, scalls, storeVars, pipeVars, appVars>>

\* second lookup, holding the lock
Reread(s) ==
    /\ spc[s] = "reread"
    /\ IF skey[s] \in DOMAIN cache
       THEN /\ sres' = [sres EXCEPT ![s] = Returned(cache[skey[s]])]
            /\ returns' = Collect(returns, skey[s], cache[skey[s]])
            /\ locks' = Release(s, skey[s])
            /\ spc' = [spc EXCEPT ![s] = "idle"]
       ELSE /\ spc' = [spc EXCEPT ![s] = "compute"]
            /\ UNCHANGED <<sres, returns, locks>>
    /\ UNCHANGED <<skey, scalls, cache, bodyRuns, pipeVars, appVars>>

\* the body of process_audio runs (lines 79-86)
Compute(s) ==
    /\ spc[s] = "compute"
    /\ bodyRuns' = Bump(bodyRuns, skey[s])
    /\ \E r \in {process_audio(skey[s][1], skey[s][2], skey[s][3])} :
          /\ sres' = [sres EXCEPT ![s] = r]
          /\ IF r.ok
             THEN /\ spc' = [spc EXCEPT ![s] = "write"]
                  /\ UNCHANGED locks
             ELSE /\ spc' = [spc EXCEPT ![s] = "idle"]
                  /\ locks' = Release(s, skey[s])
    /\ UNCHANGED <<skey, scalls, cache, returns, pipeVars, appVars>>

\* the value is stored, the lock released, the value returned
Write(s) ==
    /\ spc[s] = "write"
    /\ cache' = (skey[s] :> sres[s].y) @@ cache
    /\ returns' = Collect(returns, skey[s], sres[s].y)
    /\ locks' = Release(s, skey[s])
    /\ spc' = [spc EXCEPT ![s] = "idle"]
    /\ UNCHANGED <<skey, sres, scalls, bodyRuns, pipeVars, appVars>>

NextCache ==
    \E s \in Sessions :
        \/ \E k \in CacheKeys : Request(s, k)
        \/ ReadCache(s)
        \/ Acquire(s)
        \/ Reread(s)
        \/ Compute(s)
        \/ Write(s)

SpecCache == InitCache /\ [][NextCache]_vars

(***************************************************************************)
(* Claims about the memo cache and the script.                             *)
(***************************************************************************)

\* C7: in any sequence of calls of the cached process_audio, the body runs
\* at most once per distinct (buffer, sample rate, cutoff) and every call
\* with the same triple gets the same value.
C7_BodyRunsOncePerKey ==
    /\ \A k \in DOMAIN bodyRuns : bodyRuns[k] <= 1
    /\ \A k \in DOMAIN returns : Cardinality(returns[k]) <= 1

InFlight(s) == spc[s] \in {"compute", "write"}
HoldsLock(s) == spc[s] \in {"reread", "compute", "write"}

\* C8: at most one computation is in progress per key, a key that is stored
\* is never computed again and every call with that key gets the one value,
\* and a session waiting for a lock waits only for a session working on the
\* same key.
C8_SingleFlight ==
    /\ \A s, t \in Sessions :
          (s # t /\ InFlight(s) /\ InFlight(t)) => skey[s] # skey[t]
    /\ \A s \in Sessions : spc[s] = "compute" => skey[s] \notin DOMAIN cache
    /\ \A k \in DOMAIN returns : Cardinality(returns[k]) <= 1
    /\ \A s \in Sessions :
          (spc[s] = "acquire" /\ locks[compute_value_lock(skey[s])] # 0)
              => LET t == locks[compute_value_lock(skey[s])]
                 IN  t # s /\ HoldsLock(t) /\ skey[t] = skey[s]
C8_Witness ==
    \E s, t \in Sessions :
        /\ spc[s] = "compute"
        /\ spc[t] = "acquire"
        /\ skey[s] = skey[t]

Failures == {"decode_error", "pipeline_error", "export_error"}

\* C9: a rerun in which decoding, the pipeline or the WAV export raises
\* leaves result_audio, result_data and result_params as they were; they
\* change only in a rerun that completed every stage, all three together.
C9_AllOrNothing ==
    [][ /\ outcome' \in Failures => session_state' = session_state
        /\ session_state' # session_state
              => (outcome' = "generated" /\ DOMAIN session_state' = ResultKeys)
      ]_vars
C9_Witness ==
    /\ outcome = "pipeline_error"
    /\ DOMAIN session_state = ResultKeys
    /\ nrun = 2

FromOneRun ==
    /\ DOMAIN session_state \in {{}, ResultKeys}
    /\ DOMAIN stamp = DOMAIN session_state
    /\ \A j, k \in DOMAIN stamp : stamp[j] = stamp[k]
    /\ DOMAIN session_state = ResultKeys
          => session_state["result_audio"].samples = session_state["result_data"]

\* C10: the held result changes only in a rerun where the button was
\* pressed with a loaded file, and its three fields always come from the
\* same run.
C10_ResultLifecycle ==
    /\ []FromOneRun
    /\ [][ (session_state' # session_state \/ stamp' # stamp)
              => (widgets'.process_btn /\ Loaded(widgets'.file_source))
         ]_vars
C10_Witness ==
    /\ outcome = "shown"
    /\ DOMAIN session_state = ResultKeys
    /\ stamp["result_data"] < nrun

====
